---- MODULE Spec2Model ----
(***************************************************************************)
(* DomainSentinel: a Traefik middleware that admits or rejects a request   *)
(* by (host, path, caller address) against a rule table (src/main.go).     *)
(*                                                                         *)
(* A Go string is modelled as a sequence of characters, each character a   *)
(* one-symbol TLA+ string: "w4:80" is <<"w","4",":","8","0">>.  The box    *)
(* drawing character U+2551 that cleanCIDR rewrites is the symbol BOX.     *)
(***************************************************************************)
EXTENDS Integers, Sequences, FiniteSets, TLC

VARIABLES config, pc, req, requestedDomain, matched, status, nextCalls

vars == <<config, pc, req, requestedDomain, matched, status, nextCalls>>

BOX == "U+2551"

Digits == <<"0", "1", "2", "3", "4", "5", "6", "7", "8", "9">>

IsDigit(c) == \E d \in 1..10 : Digits[d] = c

DigitVal(c) == (CHOOSE d \in 1..10 : Digits[d] = c) - 1

(***************************************************************************)
(* The package strings, as main.go uses it.                                *)
(***************************************************************************)
Drop(s, n) == SubSeq(s, n + 1, Len(s))

Take(s, n) == SubSeq(s, 1, n)

\* The positions of character c in s (1-based).
Positions(s, c) == {i \in 1..Len(s) : s[i] = c}

\* strings.IndexByte: the first position of c in s, 0 when absent.
IndexByte(s, c) ==
    LET at == Positions(s, c)
    IN  IF at = {} THEN 0 ELSE CHOOSE i \in at : \A j \in at : i <= j

\* strings.LastIndexByte: the last position of c in s, 0 when absent.
LastIndexByte(s, c) ==
    LET at == Positions(s, c)
    IN  IF at = {} THEN 0 ELSE CHOOSE i \in at : \A j \in at : i >= j

StringsContains(s, c) == IndexByte(s, c) # 0

HasPrefix(s, prefix) ==
    Len(s) >= Len(prefix) /\ Take(s, Len(prefix)) = prefix

HasSuffix(s, suffix) ==
    Len(s) >= Len(suffix) /\ Drop(s, Len(s) - Len(suffix)) = suffix

TrimSuffix(s, suffix) ==
    IF HasSuffix(s, suffix) THEN Take(s, Len(s) - Len(suffix)) ELSE s

\* strings.ReplaceAll for a non-empty old: non-overlapping, left to right.
RECURSIVE ReplaceAll(_, _, _)
ReplaceAll(s, old, new) ==
    IF Len(s) < Len(old) THEN s
    ELSE IF HasPrefix(s, old) THEN new \o ReplaceAll(Drop(s, Len(old)), old, new)
    ELSE <<Head(s)>> \o ReplaceAll(Tail(s), old, new)

RECURSIVE TrimLeft(_, _)
TrimLeft(s, cutset) ==
    IF s # <<>> /\ Head(s) \in cutset THEN TrimLeft(Tail(s), cutset) ELSE s

RECURSIVE TrimRight(_, _)
TrimRight(s, cutset) ==
    IF s # <<>> /\ s[Len(s)] \in cutset
    THEN TrimRight(Take(s, Len(s) - 1), cutset)
    ELSE s

\* strings.Trim: all leading and trailing characters of the cutset removed.
Trim(s, cutset) == TrimRight(TrimLeft(s, cutset), cutset)

\* strings.Split on a one-character separator; Split("", sep) is [""].
RECURSIVE Split(_, _)
Split(s, sep) ==
    LET i == IndexByte(s, sep)
    IN  IF i = 0 THEN <<s>>
        ELSE <<Take(s, i - 1)>> \o Split(Drop(s, i), sep)

RECURSIVE Join(_, _)
Join(elems, sep) ==
    IF elems = <<>> THEN <<>>
    ELSE IF Len(elems) = 1 THEN elems[1]
    ELSE elems[1] \o sep \o Join(Tail(elems), sep)

\* fmt.Sprint of a []string: the elements separated by one space, in brackets.
Sprint(elems) == <<"[">> \o Join(elems, <<" ">>) \o <<"]">>

(***************************************************************************)
(* The package net, as main.go uses it.                                    *)
(***************************************************************************)
\* net.SplitHostPort.  Positions are 1-based here, 0-based in the Go source.
SplitHostPort(hostport) ==
    LET fail == [err |-> TRUE, host |-> <<>>, port |-> <<>>]
        i == LastIndexByte(hostport, ":")
        end == IndexByte(hostport, "]")
        bracketed == hostport[1] = "["
        host == IF bracketed THEN SubSeq(hostport, 2, end - 1)
                ELSE Take(hostport, i - 1)
        j == IF bracketed THEN 1 ELSE 0
        k == IF bracketed THEN end ELSE 0
    IN  IF i = 0 THEN fail
        ELSE IF bracketed /\ end = 0 THEN fail
        ELSE IF bracketed /\ end = Len(hostport) THEN fail
        ELSE IF bracketed /\ end + 1 # i THEN fail
        ELSE IF ~bracketed /\ StringsContains(host, ":") THEN fail
        ELSE IF StringsContains(Drop(hostport, j), "[") THEN fail
        ELSE IF StringsContains(Drop(hostport, k), "]") THEN fail
        ELSE [err |-> FALSE, host |-> host, port |-> Drop(hostport, i)]

RECURSIVE DecimalValue(_)
DecimalValue(ds) ==
    IF ds = <<>> THEN 0
    ELSE 10 * DecimalValue(Take(ds, Len(ds) - 1)) + DigitVal(ds[Len(ds)])

AllDigits(s) == \A i \in 1..Len(s) : IsDigit(s[i])

\* One dotted-decimal field: digits only, no leading zero, at most 255.
IsOctet(f) ==
    /\ Len(f) \in 1..3
    /\ AllDigits(f)
    /\ (Len(f) > 1 => f[1] # "0")
    /\ DecimalValue(f) <= 255

\* The IPv4 textual form accepted by net.ParseIP and net.ParseCIDR: exactly
\* four octet fields.  A text holding ":" would be read as IPv6; no input of
\* this model does (see Entries and Requests), so it is reported invalid.
ParseIPv4(s) ==
    LET fields == Split(s, ".")
    IN  IF Len(fields) = 4 /\ \A i \in 1..4 : IsOctet(fields[i])
        THEN [ok |-> TRUE, ip |-> [i \in 1..4 |-> DecimalValue(fields[i])]]
        ELSE [ok |-> FALSE, ip |-> <<>>]

ParseIP(s) == ParseIPv4(s)

\* The number of mask bits that fall into octet i of a prefix of n bits.
OctetBits(n, i) ==
    IF n >= 8 * i THEN 8 ELSE IF n <= 8 * (i - 1) THEN 0 ELSE n - 8 * (i - 1)

\* net.IP.Mask with net.CIDRMask(n, 32): the low bits of each octet cleared.
MaskIP(ip, n) == [i \in 1..4 |-> ip[i] - (ip[i] % (2 ^ (8 - OctetBits(n, i))))]

\* net.ParseCIDR: "address/bits"; bits is decimal (leading zeros accepted),
\* at most the address length.
ParseCIDR(s) ==
    LET fail == [ok |-> FALSE, ip |-> <<>>, bits |-> 0]
        i == IndexByte(s, "/")
        addr == ParseIPv4(Take(s, i - 1))
        mask == Drop(s, i)
    IN  IF i = 0 THEN fail
        ELSE IF ~addr.ok THEN fail
        ELSE IF mask = <<>> \/ ~AllDigits(mask) THEN fail
        ELSE IF DecimalValue(mask) > 32 THEN fail
        ELSE [ok |-> TRUE, ip |-> MaskIP(addr.ip, DecimalValue(mask)),
              bits |-> DecimalValue(mask)]

\* net.IPNet.Contains: false for a nil IP (an address ParseIP rejected).
IPNetContains(ipNet, parsed) ==
    /\ parsed.ok
    /\ MaskIP(parsed.ip, ipNet.bits) = ipNet.ip

(***************************************************************************)
(* main.go                                                                 *)
(***************************************************************************)
StatusForbidden == 403

\* cleanCIDR: BOX "24" BOX is deleted, every remaining BOX becomes a space.
cleanCIDR(cidr) ==
    LET cleaned == ReplaceAll(cidr, <<BOX, "2", "4", BOX>>, <<>>)
    IN  ReplaceAll(cleaned, <<BOX>>, <<" ">>)

\* Faulty variant of isPathAllowed: the prefix must end at a "/" boundary.
isPathAllowedSegment(reqPath, pathPattern) ==
    IF HasSuffix(pathPattern, <<"/", "*">>)
    THEN \/ reqPath = TrimSuffix(pathPattern, <<"/", "*">>)
         \/ HasPrefix(reqPath, TrimSuffix(pathPattern, <<"*">>))
    ELSE reqPath = pathPattern

\* isPathAllowed: prefix match for a pattern ending in "/*", else equality.
isPathAllowed(reqPath, pathPattern) ==
    IF HasSuffix(pathPattern, <<"/", "*">>)
    THEN HasPrefix(reqPath, TrimSuffix(pathPattern, <<"/", "*">>))
    ELSE reqPath = pathPattern

\* What isIPAllowed iterates over: the list printed, cleaned, stripped of the
\* outer brackets and split on spaces.
cleanedAllowedIPsArray(allowedIPs) ==
    Split(Trim(cleanCIDR(Sprint(allowedIPs)), {"[", "]"}), " ")

\* Faulty variant of EntryLoop: entries are compared as text only, never
\* read as CIDR blocks.
RECURSIVE EntryLoopLiteral(_, _, _)
EntryLoopLiteral(cidrs, ip, i) ==
    IF i > Len(cidrs) THEN FALSE
    ELSE IF cidrs[i] = ip THEN TRUE
    ELSE EntryLoopLiteral(cidrs, ip, i + 1)

\* The body of the loop over the cleaned entries, from entry i on.
RECURSIVE EntryLoop(_, _, _)
EntryLoop(cidrs, ip, i) ==
    IF i > Len(cidrs) THEN FALSE
    ELSE LET ipNet == ParseCIDR(cidrs[i])
         IN  IF ~ipNet.ok
             THEN IF cidrs[i] = ip THEN TRUE ELSE EntryLoop(cidrs, ip, i + 1)
             ELSE IF IPNetContains(ipNet, ParseIP(ip)) THEN TRUE
                  ELSE EntryLoop(cidrs, ip, i + 1)

\* Faulty variant of isIPAllowed: when the split fails the raw caller
\* address is compared instead of returning false.
isIPAllowedRaw(r, allowedIPs) ==
    LET split == SplitHostPort(r.RemoteAddr)
        ip == IF split.err THEN r.RemoteAddr ELSE split.host
    IN  EntryLoop(cleanedAllowedIPsArray(allowedIPs), ip, 1)

isIPAllowed(r, allowedIPs) ==
    LET split == SplitHostPort(r.RemoteAddr)
    IN  IF split.err THEN FALSE
        ELSE EntryLoop(cleanedAllowedIPsArray(allowedIPs), split.host, 1)

\* Faulty variant of ResolveDomain: the error of the split is not looked at.
ResolveDomainUnchecked(host) ==
    IF StringsContains(host, ":")
    THEN SplitHostPort(host).host
    ELSE host

\* The host of the request with its port removed; the raw value when the
\* split fails or there is no colon.
ResolveDomain(host) ==
    IF StringsContains(host, ":")
    THEN LET split == SplitHostPort(host)
         IN  IF split.err THEN host ELSE split.host
    ELSE host

\* Faulty variant of PathRuleLoop: the loop does not stop at the first match,
\* so the last matching rule is the one chosen.
RECURSIVE PathRuleLoopLast(_, _, _)
PathRuleLoopLast(pathRules, path, i) ==
    IF i > Len(pathRules) THEN 0
    ELSE LET later == PathRuleLoopLast(pathRules, path, i + 1)
         IN  IF later # 0 THEN later
             ELSE IF isPathAllowed(path, pathRules[i].Path) THEN i
             ELSE 0

\* The loop over the path rules: the index of the first rule, from i on,
\* whose pattern matches the path; 0 when none does.
RECURSIVE PathRuleLoop(_, _, _)
PathRuleLoop(pathRules, path, i) ==
    IF i > Len(pathRules) THEN 0
    ELSE IF isPathAllowed(path, pathRules[i].Path) THEN i
    ELSE PathRuleLoop(pathRules, path, i + 1)

\* Faulty variant of CheckedSourceIPs: the host-wide list is merged into the
\* list of the matching path rule.
CheckedSourceIPsMerged(domainConfig, m) ==
    IF m > 0
    THEN domainConfig.PathRules[m].SourceIPs \o domainConfig.SourceIPs
    ELSE domainConfig.SourceIPs

\* The allow-list ServeHTTP hands to isIPAllowed once rule m (0: none) is chosen.
CheckedSourceIPs(domainConfig, m) ==
    IF m > 0 THEN domainConfig.PathRules[m].SourceIPs ELSE domainConfig.SourceIPs

\* Faulty variant of Serve: the caller address is checked before the domain
\* is looked up, so an unconfigured host is no longer forwarded always.
ServeCallerFirst(cfg, r) ==
    LET domain == ResolveDomain(r.Host)
        known == domain \in DOMAIN cfg
        m == IF known THEN PathRuleLoop(cfg[domain].PathRules, r.Path, 1) ELSE 0
        allowedIPs == IF known THEN CheckedSourceIPs(cfg[domain], m) ELSE <<>>
    IN  IF SplitHostPort(r.RemoteAddr).err \/ (known /\ ~isIPAllowed(r, allowedIPs))
        THEN [requestedDomain |-> domain, matched |-> m,
              status |-> StatusForbidden, nextCalls |-> 0]
        ELSE [requestedDomain |-> domain, matched |-> m,
              status |-> 0, nextCalls |-> 1]

\* ServeHTTP for request r under rule table cfg: the resolved domain, the
\* path rule that matched, the status written and the calls of next.ServeHTTP.
Serve(cfg, r) ==
    LET domain == ResolveDomain(r.Host)
        forward == [requestedDomain |-> domain, matched |-> 0,
                    status |-> 0, nextCalls |-> 1]
    IN  IF domain \notin DOMAIN cfg THEN forward
        ELSE LET domainConfig == cfg[domain]
                 m == PathRuleLoop(domainConfig.PathRules, r.Path, 1)
             IN  IF ~isIPAllowed(r, CheckedSourceIPs(domainConfig, m))
                 THEN [requestedDomain |-> domain, matched |-> m,
                       status |-> StatusForbidden, nextCalls |-> 0]
                 ELSE [forward EXCEPT !.matched = m]

(***************************************************************************)
(* The inputs: rule tables and requests.                                   *)
(***************************************************************************)
MaxEntries == 2

MaxPathRules == 2

SeqsUpTo(S, n) == UNION {[1..k -> S] : k \in 0..n}

\* The sequences of SeqsUpTo that name no element twice.
DistinctSeqsUpTo(S, n) ==
    {q \in SeqsUpTo(S, n) : \A i, j \in 1..Len(q) : q[i] = q[j] => i = j}

\* Allow-list entries: a /24 block, a /25 block, the universal block, a bare
\* address, and three texts that are no CIDR block: with a space, with a
\* bracket, with BOX.
Cidr24 == <<"1", "0", ".", "1", "0", ".", "4", ".", "0", "/", "2", "4">>

Cidr25 == <<"1", "0", ".", "1", "0", ".", "4", ".", "1", "2", "8", "/", "2", "5">>

Any4 == <<"0", ".", "0", ".", "0", ".", "0", "/", "0">>

BareIP == <<"1", "0", ".", "1", "0", ".", "5", ".", "1">>

Spaced == <<"a", " ", "b">>

Bracketed == <<"[", "a">>

Boxed == <<BOX, "2", "4", BOX, "a">>

Entries == {Cidr24, Cidr25, Any4, BareIP, Spaced, Bracketed, Boxed}

AllowLists == DistinctSeqsUpTo(Entries, MaxEntries)

\* The allow-lists given to path rules, and to hosts that have path rules.
RuleAllowLists == {<<Any4>>, <<Cidr24>>}

HostAllowLists == {<<>>, <<Any4>>}

AdminPattern == <<"/", "a", "d", "m", "i", "n", "/", "*">>

SettingsPattern == <<"/", "a", "d", "m", "i", "n", "/", "s", "e", "t", "t", "i", "n", "g", "s">>

Patterns == {AdminPattern, SettingsPattern}

PathConfigs == [Path : Patterns, SourceIPs : RuleAllowLists]

DomainConfigs ==
    [SourceIPs : AllowLists, PathRules : {<<>>}]
    \cup [SourceIPs : HostAllowLists,
          PathRules : SeqsUpTo(PathConfigs, MaxPathRules)]

\* The configured host names: a plain one, and one that is the raw form of a
\* Host value whose port cannot be split off.
W4 == <<"w", "4">>

RawKey == <<"[", "w", "4", ":", "8", "0">>

DenyAll == [SourceIPs |-> <<>>, PathRules |-> <<>>]

Configs == {(W4 :> dc) @@ (RawKey :> DenyAll) : dc \in DomainConfigs}

Hosts == {W4, <<"w", "4", ":", "8", "0">>, <<"[", "w", "4", "]", ":", "8", "0">>, RawKey, <<"W", "4">>}

PublicPath == <<"/", "p", "u", "b", "l", "i", "c">>

AdminPaths ==
    {<<"/", "a", "d", "m", "i", "n">>, <<"/", "a", "d", "m", "i", "n", "/">>,
     <<"/", "a", "d", "m", "i", "n", "/", "s", "e", "t", "t", "i", "n", "g", "s">>,
     <<"/", "a", "d", "m", "i", "n", "i", "s", "t", "r", "a", "t", "i", "o", "n">>}

Paths == AdminPaths \cup {PublicPath}

Port == <<":", "8", "0">>

\* The decimal text of n.
RECURSIVE Decimal(_)
Decimal(n) ==
    IF n < 10 THEN <<Digits[n + 1]>>
    ELSE Decimal(n \div 10) \o <<Digits[(n % 10) + 1]>>

\* The text of the address 10.10.4.x.
Net24Addr(x) == <<"1", "0", ".", "1", "0", ".", "4", ".">> \o Decimal(x)

\* Caller addresses of every last octet of 10.10.4.0/24, with a port.
Net24Callers == {Net24Addr(x) \o Port : x \in 0..255}

\* Other caller addresses: one outside the block, an empty address, two
\* texts that are no address, and one that has no port to split off.
OtherCallers ==
    {BareIP \o Port, Port, <<"a", ":", "8", "0">>, Spaced \o Port, BareIP}

Requests ==
    [Host : Hosts, Path : Paths, RemoteAddr : OtherCallers]
    \cup [Host : {W4}, Path : {PublicPath}, RemoteAddr : Net24Callers]

NoRequest == [Host |-> <<>>, Path |-> <<>>, RemoteAddr |-> <<>>]

(***************************************************************************)
(* The middleware as a state machine.  New stores the rule table, which is *)
(* never written again; every request is served from it alone.             *)
(***************************************************************************)
Init ==
    /\ config \in Configs
    /\ pc = "idle"
    /\ req = NoRequest
    /\ requestedDomain = <<>>
    /\ matched = 0
    /\ status = 0
    /\ nextCalls = 0

\* ServeHTTP, called by the proxy with request r.
ServeHTTP(r) ==
    /\ pc = "idle"
    /\ \E out \in {Serve(config, r)} :
           /\ requestedDomain' = out.requestedDomain
           /\ matched' = out.matched
           /\ status' = out.status
           /\ nextCalls' = out.nextCalls
    /\ req' = r
    /\ pc' = "done"
    /\ UNCHANGED config

\* The request is over; nothing of it is kept for the next one.
Finish ==
    /\ pc = "done"
    /\ pc' = "idle"
    /\ req' = NoRequest
    /\ requestedDomain' = <<>>
    /\ matched' = 0
    /\ status' = 0
    /\ nextCalls' = 0
    /\ UNCHANGED config

Next ==
    \/ \E r \in Requests : ServeHTTP(r)
    \/ Finish

Spec == Init /\ [][Next]_vars

(***************************************************************************)
(* Vocabulary of the properties.                                           *)
(***************************************************************************)
Done == pc = "done"

Configured == requestedDomain \in DOMAIN config

\* ALLOW: the request went to the next handler and nothing was written.
Forwarded == status = 0 /\ nextCalls = 1

\* DENY: 403 was written and the next handler was not invoked.
Rejected == status = StatusForbidden /\ nextCalls = 0

\* The policy of the requested domain and the allow-list the request was
\* checked against (meaningful when Configured).
Policy == config[requestedDomain]

Checked == CheckedSourceIPs(Policy, matched)

Caller == SplitHostPort(req.RemoteAddr)

\* The path rules of the requested domain whose pattern matches the path.
Matching ==
    {i \in 1..Len(Policy.PathRules) : isPathAllowed(req.Path, Policy.PathRules[i].Path)}

Min(S) == CHOOSE i \in S : \A j \in S : i <= j

\* The rearrangements of a list.
Rearrangements(q) ==
    {[i \in 1..Len(q) |-> q[f[i]]] :
        f \in {g \in [1..Len(q) -> 1..Len(q)] :
                 \A i, j \in 1..Len(q) : g[i] = g[j] => i = j}}

\* The 8 bits of an octet and the 32 bits of an address, high bit first.
OctetBit(o, b) == (o \div (2 ^ (8 - b))) % 2

AddressBits(ip) == [n \in 1..32 |-> OctetBit(ip[((n - 1) \div 8) + 1], ((n - 1) % 8) + 1)]

SamePrefix(ip, net, bits) ==
    \A n \in 1..bits : AddressBits(ip)[n] = AddressBits(net)[n]

(***************************************************************************)
(* The properties.                                                         *)
(***************************************************************************)
\* C1: a request whose resolved host is not a key of the rule table is
\* forwarded to the next handler, whatever its path and caller address, a
\* caller address without a port included.
C1_UnconfiguredHostForwarded ==
    (Done /\ ~Configured) => Forwarded

C1_Witness ==
    /\ Done /\ ~Configured /\ Forwarded
    /\ Caller.err
    /\ req.Path \in AdminPaths

\* C2: when a path rule matches the request path, the verdict is membership
\* of the caller in that path rule's allow-list alone; the host-wide list is
\* not consulted.
C2_PathRuleListAloneDecides ==
    (Done /\ Configured /\ Matching # {}) =>
        /\ matched \in Matching
        /\ Forwarded <=> isIPAllowed(req, Policy.PathRules[matched].SourceIPs)
        /\ Rejected <=> ~isIPAllowed(req, Policy.PathRules[matched].SourceIPs)

C2_Witness ==
    /\ Done /\ Configured /\ Matching # {}
    /\ isIPAllowed(req, Policy.SourceIPs)
    /\ ~isIPAllowed(req, Policy.PathRules[matched].SourceIPs)
    /\ Rejected

\* C3: the path rules are tested in declared order and the first rule whose
\* pattern matches decides: a later matching rule never changes the verdict.
C3_FirstMatchWins ==
    (Done /\ Configured /\ Matching # {}) =>
        /\ matched = Min(Matching)
        /\ Forwarded <=> isIPAllowed(req, Policy.PathRules[Min(Matching)].SourceIPs)

C3_Witness ==
    /\ Done /\ Configured /\ Rejected
    /\ \E i, j \in Matching :
          /\ i < j
          /\ ~isIPAllowed(req, Policy.PathRules[i].SourceIPs)
          /\ isIPAllowed(req, Policy.PathRules[j].SourceIPs)

\* The precondition of C4: the first path rule of the domain is "/admin/*".
AdminRuleFirst ==
    /\ Done /\ Configured
    /\ Policy.PathRules # <<>>
    /\ Policy.PathRules[1].Path = AdminPattern

\* C4 (as stated): pattern "/admin/*" matches the request paths "/admin",
\* "/admin/" and "/admin/settings", and does not match "/administration".
C4_AdminPatternAsStated ==
    AdminRuleFirst =>
        /\ req.Path \in {<<"/", "a", "d", "m", "i", "n">>, <<"/", "a", "d", "m", "i", "n", "/">>,
                         <<"/", "a", "d", "m", "i", "n", "/", "s", "e", "t", "t", "i", "n", "g", "s">>}
              => matched = 1
        /\ req.Path = <<"/", "a", "d", "m", "i", "n", "i", "s", "t", "r", "a", "t", "i", "o", "n">> => matched # 1

\* C4 (amended): pattern "/admin/*" matches every request path that starts
\* with "/admin": "/admin", "/admin/", "/admin/settings" and "/administration"
\* too; it does not match "/public".
C4_AdminPatternIsStringPrefix ==
    AdminRuleFirst =>
        /\ req.Path \in {<<"/", "a", "d", "m", "i", "n">>, <<"/", "a", "d", "m", "i", "n", "/">>,
                         <<"/", "a", "d", "m", "i", "n", "/", "s", "e", "t", "t", "i", "n", "g", "s">>,
                         <<"/", "a", "d", "m", "i", "n", "i", "s", "t", "r", "a", "t", "i", "o", "n">>}
              => matched = 1
        /\ req.Path = PublicPath => matched # 1

C4_Witness ==
    /\ AdminRuleFirst
    /\ req.Path = <<"/", "a", "d", "m", "i", "n", "i", "s", "t", "r", "a", "t", "i", "o", "n">>
    /\ matched = 1

\* C5: a configured host with an empty host-wide allow-list and no path
\* rules rejects the request for every caller address.
C5_EmptyPolicyDeniesAll ==
    (Done /\ Configured /\ Policy.SourceIPs = <<>> /\ Policy.PathRules = <<>>)
        => Rejected

\* C6: for a configured host, a caller address that cannot be split into
\* address and port is rejected with 403 and the next handler is not
\* invoked, whatever the checked allow-list contains.
C6_MalformedCallerRejected ==
    (Done /\ Configured /\ Caller.err) => Rejected

C6_Witness ==
    /\ Done /\ Configured /\ Caller.err /\ Rejected
    /\ \E i, j \in 1..Len(Checked) :
          Checked[i] = Any4 /\ Checked[j] = req.RemoteAddr

\* C7: an entry of the checked allow-list that is no CIDR block allows the
\* caller whose address equals the entry, whatever the position of the entry
\* and whatever characters it holds.
C7_LiteralEntryAllowsEqualCaller ==
    (Done /\ Configured /\ ~Caller.err) =>
        \A i \in 1..Len(Checked) :
            (~ParseCIDR(Checked[i]).ok /\ Checked[i] = Caller.host) => Forwarded

\* C8: an IPv4 CIDR entry matches exactly the callers whose leading
\* prefix-length bits are the network's: 10.10.4.0/24 alone allows the
\* callers 10.10.4.x and no other (10.10.4.128/25 alone those with x >= 128);
\* 0.0.0.0/0 allows every IPv4 caller.
C8_CidrMembership ==
    (Done /\ Configured /\ ~Caller.err) =>
        /\ Checked = <<Cidr24>> =>
              (Forwarded <=> \E x \in 0..255 : Caller.host = Net24Addr(x))
        /\ Checked = <<Cidr25>> =>
              (Forwarded <=> \E x \in 128..255 : Caller.host = Net24Addr(x))
        /\ ((\E i \in 1..Len(Checked) : Checked[i] = Any4)
              /\ ParseIPv4(Caller.host).ok) => Forwarded
        /\ (Len(Checked) = 1 /\ ParseCIDR(Checked[1]).ok
              /\ ParseIPv4(Caller.host).ok) =>
              (Forwarded <=> SamePrefix(ParseIPv4(Caller.host).ip,
                                        ParseCIDR(Checked[1]).ip,
                                        ParseCIDR(Checked[1]).bits))

C8_Witness ==
    /\ Done /\ Configured /\ Forwarded
    /\ Checked = <<Cidr24>>
    /\ Caller.host = Net24Addr(254)

\* C9: a Host value that splits into host and port is looked up by the bare
\* host and decided like the bare host; one with a colon that does not split
\* is looked up unchanged and still decided; one without a colon is used as
\* it is, with no case folding.
C9_HostResolution ==
    Done =>
        /\ Forwarded \/ Rejected
        /\ req.Host \in {<<"w", "4", ":", "8", "0">>, <<"[", "w", "4", "]", ":", "8", "0">>} =>
              /\ requestedDomain = W4
              /\ <<matched, status, nextCalls>> =
                    LET bare == Serve(config, [req EXCEPT !.Host = W4])
                    IN  <<bare.matched, bare.status, bare.nextCalls>>
        /\ req.Host = RawKey => requestedDomain = RawKey /\ Configured
        /\ req.Host \in {W4, <<"W", "4">>} => requestedDomain = req.Host
        /\ req.Host = <<"W", "4">> => ~Configured /\ Forwarded

C9_Witness ==
    /\ Done /\ Rejected
    /\ req.Host = RawKey
    /\ requestedDomain = RawKey

\* C10: the verdict does not depend on the order of the entries of the
\* checked allow-list: every rearrangement of the list gives the same verdict.
C10_OrderIndependent ==
    (Done /\ Configured) =>
        \A q \in Rearrangements(Checked) : isIPAllowed(req, q) <=> Forwarded

====
